---- MODULE Spec2Model ----
(***************************************************************************)
(* pi_sorter: the quadrature decoder / position trigger (three encoder     *)
(* classes, with the thread that delivers the edges), the MQTT manager     *)
(* (publish path, offline queue, connection life cycle, reconnect loop,    *)
(* subscriptions, topic matching, inbound dispatch) and the                *)
(* trigger-to-capture path of the integrated system.                       *)
(*                                                                         *)
(*   src/src/external/encoder_module.py             RotaryEncoder          *)
(*   src/src/external/encoder_module_lgpio.py       RotaryEncoderLGPIO     *)
(*   src/src/external/encoder_module_refactored.py  RotaryEncoder          *)
(*   src/src/external/mqtt_manager_refactored.py    MQTTManager            *)
(*   src/src/external/integrated_sorting_system.py  IntegratedSortingSystem*)
(*   src/main.py                                    AsparagusSystem        *)
(***************************************************************************)
EXTENDS Integers, Sequences, FiniteSets, TLC

VARIABLES
    \* ---- encoder object (one of the three classes, fixed by impl) ----
    impl,                   \* which class the object is an instance of
    position,               \* self.position
    last_trigger_position,  \* self.last_trigger_position
    trigger_position,       \* self.trigger_position
    trigger_callback,       \* self.trigger_callback is not None
    trigger_enabled,        \* self.trigger_enabled (refactored class only)
    min_position,           \* self.min_position (refactored): None or <<n>>
    max_position,           \* self.max_position (refactored): None or <<n>>
    is_monitoring,          \* self.is_monitoring (refactored)
    \* ---- what an observer of the encoder has seen ----
    lastOp,                 \* the operation that ran last
    fired,                  \* that operation invoked / dispatched the trigger callback
    revFires,               \* callback invocations since the last index event
    cwRun,                  \* clockwise edges since position was zeroed, -1 once broken
    clampedRun,             \* some edge since the last index event was clamped
    revClean,               \* only clockwise edges, default trigger, since the index
    inBand,                 \* fresh start, default trigger, positions within 0..160
                            \* and never below 140 once the callback has run
    dipped,                 \* inBand, and position came back down to 140 after firing
    \* ---- MQTTManager object ----
    is_connected,           \* self.is_connected
    is_connecting,          \* self.is_connecting
    client,                 \* self.client is not None
    message_queue,          \* self.message_queue: the cached messages, oldest first
    waiting,                \* a connect_to_broker call is in its wait loop
    \* ---- the paho client behind self.client ----
    loop_running,           \* loop_start() done and loop_stop() not: callbacks are delivered
    \* ---- what an observer of the manager has seen ----
    published,              \* publish_message calls so far; the n-th message has id n
    handed,                 \* per message: client.publish calls that accepted it (2: twice or more)
    unacked,                \* qos >= 1 messages accepted by client.publish whose
                            \* acknowledgment has not been seen
    evicted,                \* messages popped from a full queue
    fifo_ok,                \* every flush so far called client.publish in queue order
                            \* and kept the unsent messages in their relative order
    \* ---- MQTTManager: reconnect loop, subscriptions, connection callback ----
    reconnect_delay,        \* self.reconnect_delay (from the broker configuration)
    reconnect_attempts,     \* self.reconnect_attempts
    reconnect_thread,       \* where the thread running _reconnect_loop is:
                            \*   "none" never started, "loop" at the top of the loop,
                            \*   "sleeping" in time.sleep(delay), "connecting" in the
                            \*   wait loop of its connect_to_broker call, "exited"
    delay,                  \* the loop's local variable delay (0 before the first wait)
    message_callbacks,      \* self.message_callbacks: topics with a registered handler
    broker_subs,            \* topics the broker holds a subscription for in the
                            \* session of the current client
    connection_callback,    \* self.connection_callback is not None
    \* ---- what an observer of the connection has seen ----
    acked,                  \* the broker accepted the current connection (CONNACK 0)
                            \* and it has not been closed or lost since
    connection_events,      \* connection_callback invocations made by the last step
    streak,                 \* failed attempts of the reconnect loop since the last
                            \* established connection
    disconnect_requested,   \* disconnect_from_broker was called while the reconnect
                            \* thread was alive, and connect_to_broker not since
    \* ---- trigger-to-capture path (IntegratedSortingSystem) ----
    callback_threads,       \* callback threads started by the refactored encoder that
                            \* have not run yet (saturating at MaxThreads)
    captures_in_flight,     \* capture calls made by _handle_encoder_trigger that
                            \* have not returned
    \* ---- one message followed through the offline queue ----
    rt_call,                \* the arguments of the publish_message call
    rt_stage,               \* "called", "cached", "flushed" or "direct"
    rt_queue,               \* the queue entry made by _cache_message
    rt_sent,                \* the arguments client.publish was called with
    \* ---- the thread that delivers edges to the encoder object ----
    edge_thread,            \* "ready" to handle the next edge, "in_callback" while
                            \* it runs the trigger callback itself, "dead" once
                            \* it has ended
    pin_a,                  \* level of the A line as gpio_read returns it
    pin_z,                  \* level of the Z line as gpio_read returns it
    \* ---- what an observer of the trigger-to-capture path has seen ----
    capture_result,         \* how the last capture call ended: "none" (no call
                            \* has ended), "ok", "error" (returned None) or "raise"
    trigger_published,      \* topics _handle_encoder_trigger has published on
    \* ---- inbound messages (MQTTManager._on_message_handler) ----
    arrived,                \* the last message delivered by the client
    invoked,                \* per registered pattern: calls of its handler made
                            \* for that message
    handler_payload,        \* the payload those handlers were passed
    \* ---- one _topic_matches call ----
    mt_pattern,             \* subscribed_topic, split on "/"
    mt_topic,               \* received_topic, split on "/"
    mt_stage,               \* "idle", "called" or "returned"
    mt_result,              \* the value returned
    \* ---- MQTTManager: stopping the reconnect loop, a publish under way ----
    stop_requested,         \* stop_auto_reconnect has returned, and
                            \* start_auto_reconnect was not called since
    publish_thread,         \* <<>>, or <<msg>> while a publish_message call has
                            \* read is_connected as False and not yet cached msg
    \* ---- encoder objects: a pulse under way, the polling thread's controls ----
    pulse_thread,           \* None, or <<p>> while _handle_encoder_pulse has left
                            \* "with self.position_lock" and not yet decided on
                            \* the trigger; p holds its local variables
    is_running,             \* self.is_running (RotaryEncoderLGPIO)
    _stop_monitor,          \* the object has an attribute _stop_monitor
    chip,                   \* the GPIO chip handle is open
    \* ---- SystemMonitor object ----
    metrics,                \* self.metrics
    alert_rules,            \* self.alert_rules: per rule name None or <<config>>
    alert_status,           \* self.alert_status: per rule name "absent", "true"
                            \* or "false"
    \* ---- what the notification channels have seen ----
    notifications           \* per rule name: the notifications sent for the rule
                            \* since it was added, oldest first

encVars == <<impl, position, last_trigger_position, trigger_position,
             trigger_callback, trigger_enabled, min_position, max_position,
             is_monitoring>>
obsVars == <<lastOp, fired, revFires, cwRun, clampedRun, revClean, inBand, dipped>>

mqttVars == <<is_connected, is_connecting, client, message_queue, waiting,
              loop_running>>
mqttObs == <<published, handed, unacked, evicted>>
queueObs == <<mqttObs, fifo_ok>>
reconnVars == <<reconnect_attempts, reconnect_thread, delay, streak>>
subsVars == <<message_callbacks, broker_subs>>
connVars == <<reconnect_delay, reconnVars, subsVars, connection_callback>>
connObs == <<acked, connection_events, disconnect_requested>>
coordVars == <<callback_threads, captures_in_flight>>
rtVars == <<rt_call, rt_stage, rt_queue, rt_sent>>
dispVars == <<edge_thread, pin_a, pin_z>>
capVars == <<capture_result, trigger_published>>
routeVars == <<arrived, invoked, handler_payload>>
matchVars == <<mt_pattern, mt_topic, mt_stage, mt_result>>
callVars == <<stop_requested, publish_thread>>
threadVars == <<pulse_thread, is_running, _stop_monitor, chip>>
monVars == <<metrics, alert_rules, alert_status, notifications>>

vars == <<encVars, obsVars, mqttVars, queueObs, connVars, connObs, coordVars,
          rtVars, dispVars, capVars, routeVars, matchVars, callVars, threadVars,
          monVars>>

\* What the operations of one object leave alone.
edgeFrame == <<mqttVars, queueObs, connVars, connObs, captures_in_flight, rtVars,
               capVars, routeVars, matchVars, callVars, monVars>>
encFrame == <<edgeFrame, threadVars>>
managerFrame == <<encVars, obsVars, coordVars, rtVars, dispVars, capVars, routeVars,
                  matchVars, threadVars, monVars>>
mqttFrame == <<managerFrame, callVars>>
coordFrame == <<mqttVars, queueObs, connVars, connObs, rtVars, dispVars, routeVars,
                matchVars, callVars, threadVars, monVars>>
rtFrame == <<encVars, obsVars, mqttVars, queueObs, connVars, connObs, coordVars,
             dispVars, capVars, routeVars, matchVars, callVars, threadVars, monVars>>
routeFrame == <<encVars, obsVars, coordVars, rtVars, dispVars, capVars, matchVars,
                callVars, threadVars, monVars>>
matchFrame == <<encVars, obsVars, mqttVars, queueObs, connVars, connObs, coordVars,
                rtVars, dispVars, capVars, routeVars, callVars, threadVars, monVars>>
monFrame == <<encVars, obsVars, mqttVars, queueObs, connVars, connObs, coordVars,
              rtVars, dispVars, capVars, routeVars, matchVars, callVars, threadVars>>

----------------------------------------------------------------------------
\* Bounds of the exploration.

\* Highest position the conveyor is driven to.
MaxPos == 162
\* Furthest the position is driven below zero.
MaxBack == 3
\* The callback counter saturates here ("this many or more").
FireCap == 2
\* A second trigger position passed to set_trigger / set_trigger_position.
AltTrigger == 155
\* Limits passed to set_position_limits.
LimitMin == 2
LimitMax == 4
\* A non-zero target passed to reset_position(position).
ResetAlt == 5
\* Configuration calls (set_trigger, set_trigger_position, start_monitoring,
\* set_position_limits, reset_position) are made with the conveyor at the
\* index position or at this one position in mid travel.
LateConfigPos == 152

\* self.max_queue_size, kept small here (the class sets 1000).
max_queue_size == 2
\* self.max_reconnect_attempts, from the broker configuration (default 10).
max_reconnect_attempts == 7
\* Callback threads counted before the counter saturates.
MaxThreads == 2
\* Longest received topic and longest subscribed pattern, in levels.
MaxTopicLevels == 4
MaxPatternLevels == 3

\* Program constants.
DefaultTriggerPosition == 150
GuardBand == 100
DefaultReconnectDelay == 5
MaxDelay == 60

None == <<>>
Some(n) == <<n>>

Max(a, b) == IF a >= b THEN a ELSE b
Min(a, b) == IF a <= b THEN a ELSE b
Abs(n) == IF n >= 0 THEN n ELSE -n

Positions == (-MaxBack)..MaxPos
TriggerPositions == {DefaultTriggerPosition, AltTrigger}
Levels == {0, 1}
ConfigPositions == {0, LateConfigPos}
Impls == {"RotaryEncoder", "RotaryEncoderLGPIO", "Refactored"}

----------------------------------------------------------------------------
\* The decoder and the trigger condition, as the three classes compute them.

\* Mutation: the two directions swapped.
Decode_swapped(pos, a_state, b_state) ==
    IF a_state = b_state THEN pos - 1 ELSE pos + 1

\* a_state == b_state: position += 1, else position -= 1
Decode(pos, a_state, b_state) ==
    IF a_state = b_state THEN pos + 1 ELSE pos - 1

\* Mutation: the lower limit is not applied.
ClampToLimits_no_min(pos, lo, hi) ==
    IF hi # None THEN Min(hi[1], pos) ELSE pos

\* refactored: max(min_position, position) then min(max_position, position)
ClampToLimits(pos, lo, hi) ==
    LET p1 == IF lo # None THEN Max(lo[1], pos) ELSE pos
    IN  IF hi # None THEN Min(hi[1], p1) ELSE p1

\* Mutation: the guard band left out of the condition.
RotaryEncoder_trigger_due_no_guard(cb, pos, thr, last) ==
    cb /\ pos >= thr /\ pos > last

\* RotaryEncoder._handle_encoder: the condition of the if
RotaryEncoder_trigger_due(cb, pos, thr, last) ==
    cb /\ pos >= thr /\ pos > last + GuardBand

\* Mutation: the threshold left out of the condition.
RotaryEncoderLGPIO_trigger_due_no_threshold(cb, pos, thr, last) ==
    cb /\ pos > last + GuardBand

\* RotaryEncoderLGPIO._handle_encoder_change: the condition of the if
RotaryEncoderLGPIO_trigger_due(cb, pos, thr, last) ==
    cb /\ pos >= thr /\ pos > last + GuardBand

\* refactored RotaryEncoder._handle_encoder_pulse: the condition of the if
Refactored_trigger_due(en, cb, pos, thr, last) ==
    en /\ cb /\ Abs(pos - last) >= thr

\* What the index handler leaves in last_trigger_position.
RotaryEncoder_zero_last_trigger(last) == last
RotaryEncoderLGPIO_zero_last_trigger(last) == last
Refactored_zero_last_trigger(last) == 0

----------------------------------------------------------------------------
\* Observation of one operation.

DefaultTrigger ==
    /\ trigger_callback
    /\ trigger_position = DefaultTriggerPosition
    /\ (impl = "Refactored" => trigger_enabled)

ObservedEdge(a_state, b_state, newpos, trig, clamped) ==
    LET cw == (a_state = b_state)
        fires == IF trig THEN Min(revFires + 1, FireCap) ELSE revFires
    IN  /\ lastOp' = IF cw THEN "cw" ELSE "ccw"
        /\ fired' = trig
        /\ revFires' = fires
        /\ cwRun' = IF cw /\ cwRun >= 0 THEN cwRun + 1 ELSE -1
        /\ clampedRun' = (clampedRun \/ clamped)
        /\ revClean' = (revClean /\ cw /\ ~clamped /\ DefaultTrigger)
        /\ inBand' = (/\ inBand
                      /\ ~clamped
                      /\ DefaultTrigger
                      /\ newpos \in 0..160
                      /\ (fires > 0 => newpos >= 140))
        /\ dipped' = (inBand' /\ (dipped \/ (fires > 0 /\ newpos = 140)))
        \* the refactored class starts a thread for the callback
        /\ callback_threads' = IF trig /\ impl = "Refactored"
                               THEN Min(callback_threads + 1, MaxThreads)
                               ELSE callback_threads

ObserveEdge(a_state, b_state, newpos, trig, clamped) ==
    /\ ObservedEdge(a_state, b_state, newpos, trig, clamped)
    /\ UNCHANGED <<pin_a, pin_z>>
    /\ UNCHANGED encFrame

ObserveZero(newlast) ==
    /\ lastOp' = "zero"
    /\ fired' = FALSE
    /\ revFires' = 0
    /\ cwRun' = 0
    /\ clampedRun' = FALSE
    /\ revClean' = TRUE
    /\ inBand' = (newlast = 0)
    /\ dipped' = FALSE
    /\ UNCHANGED <<callback_threads, dispVars, encFrame>>

ObserveReset ==
    /\ lastOp' = "other"
    /\ fired' = FALSE
    /\ cwRun' = -1
    /\ revClean' = FALSE
    /\ inBand' = FALSE
    /\ dipped' = FALSE
    /\ UNCHANGED <<revFires, clampedRun>>
    /\ UNCHANGED <<callback_threads, dispVars, encFrame>>

ObserveConfig ==
    /\ lastOp' = "other"
    /\ fired' = FALSE
    /\ UNCHANGED <<revFires, cwRun, clampedRun, revClean, inBand, dipped>>
    /\ UNCHANGED <<callback_threads, dispVars, encFrame>>

----------------------------------------------------------------------------
\* Where the trigger callback runs.

\* encoder_module.py and encoder_module_lgpio.py: self.trigger_callback() is a
\* plain call made by the handler, so the thread that handles edges is inside
\* the callback until it is back.
inline_callback(trig, returned) ==
    IF trig /\ ~returned THEN "in_callback" ELSE "ready"

\* encoder_module_refactored.py: threading.Thread(target =
\* self._execute_trigger_callback, ...).start(), and the handler goes on.
threaded_callback(trig) == "ready"

\* What is left of the edge thread when the callback it runs raises:
\* _monitor_gpio catches the exception, logs it and breaks out of its loop;
\* the callback thread of RPi.GPIO reports the exception and goes on.
after_callback_raised(class) ==
    IF class = "RotaryEncoderLGPIO" THEN "dead" ELSE "ready"

\* The callback run by the edge thread is back, or raises.
trigger_callback_return(raised) ==
    /\ edge_thread = "in_callback"
    /\ edge_thread' = IF raised THEN after_callback_raised(impl) ELSE "ready"
    /\ UNCHANGED <<pin_a, pin_z>>
    /\ UNCHANGED <<encVars, obsVars, callback_threads, encFrame>>

\* position_lock is a threading.Lock, taken by the handler around the
\* callback call: it is held while the edge thread is inside the callback.
position_lock_held == edge_thread \in {"in_callback", "blocked"}

\* The callback calls get_position() or reset_position() of the encoder:
\* "with self.position_lock" on the thread that already holds the lock.
trigger_callback_calls(method) ==
    /\ impl \in {"RotaryEncoder", "RotaryEncoderLGPIO"}
    /\ method \in {"get_position", "reset_position"}
    /\ edge_thread = "in_callback"
    /\ edge_thread' = IF position_lock_held THEN "blocked" ELSE "in_callback"
    /\ UNCHANGED <<pin_a, pin_z>>
    /\ UNCHANGED <<encVars, obsVars, callback_threads, encFrame>>

\* The A or the Z line changes its level.
line_change(line) ==
    /\ impl = "RotaryEncoderLGPIO"
    /\ pin_a' = IF line = "A" THEN 1 - pin_a ELSE pin_a
    /\ pin_z' = IF line = "Z" THEN 1 - pin_z ELSE pin_z
    /\ lastOp' = "line"
    /\ fired' = FALSE
    /\ UNCHANGED <<revFires, cwRun, clampedRun, revClean, inBand, dipped>>
    /\ UNCHANGED <<encVars, edge_thread, callback_threads, encFrame>>

----------------------------------------------------------------------------
\* RotaryEncoder (encoder_module.py)

\* The handler runs on the library's callback thread, inside
\* "with self.position_lock", and calls self.trigger_callback() there;
\* returned tells whether the callback is back before anything else happens.
RotaryEncoder_handle_encoder(a_state, b_state, returned) ==
    /\ impl = "RotaryEncoder"
    /\ edge_thread = "ready"
    /\ LET newpos == Decode(position, a_state, b_state)
           trig == RotaryEncoder_trigger_due(trigger_callback, newpos,
                                             trigger_position, last_trigger_position)
       IN  /\ newpos \in Positions
           /\ trig \/ returned
           /\ position' = newpos
           /\ last_trigger_position' = IF trig THEN newpos ELSE last_trigger_position
           /\ edge_thread' = inline_callback(trig, returned)
           /\ ObserveEdge(a_state, b_state, newpos, trig, FALSE)
    /\ UNCHANGED <<impl, trigger_position, trigger_callback, trigger_enabled,
                   min_position, max_position, is_monitoring>>

RotaryEncoder_handle_zero ==
    /\ impl = "RotaryEncoder"
    /\ edge_thread = "ready"
    /\ position' = 0
    /\ last_trigger_position' = RotaryEncoder_zero_last_trigger(last_trigger_position)
    /\ ObserveZero(last_trigger_position')
    /\ UNCHANGED <<impl, trigger_position, trigger_callback, trigger_enabled,
                   min_position, max_position, is_monitoring>>

RotaryEncoder_set_trigger(pos) ==
    /\ impl = "RotaryEncoder"
    /\ position \in ConfigPositions
    /\ trigger_position' = pos
    /\ trigger_callback' = TRUE
    /\ ObserveConfig
    /\ UNCHANGED <<impl, position, last_trigger_position, trigger_enabled,
                   min_position, max_position, is_monitoring>>

RotaryEncoder_reset_position ==
    /\ impl = "RotaryEncoder"
    /\ ~position_lock_held
    /\ position \in ConfigPositions
    /\ position' = 0
    /\ ObserveReset
    /\ UNCHANGED <<impl, last_trigger_position, trigger_position, trigger_callback,
                   trigger_enabled, min_position, max_position, is_monitoring>>

----------------------------------------------------------------------------
\* RotaryEncoderLGPIO (encoder_module_lgpio.py)

\* "while self.is_running or not hasattr(self, '_stop_monitor')"
monitor_loop_condition == is_running \/ ~_stop_monitor

\* _monitor_gpio calls the handler whenever it reads the A line low; the
\* handler reads both lines again (a_state, b_state) and, inside
\* "with self.position_lock", calls self.trigger_callback() on the monitor
\* thread; returned as above.
RotaryEncoderLGPIO_handle_encoder_change(a_state, b_state, returned) ==
    /\ impl = "RotaryEncoderLGPIO"
    /\ edge_thread = "ready"
    /\ monitor_loop_condition /\ chip
    /\ pin_a = 0
    /\ LET newpos == Decode(position, a_state, b_state)
           trig == RotaryEncoderLGPIO_trigger_due(trigger_callback, newpos,
                                                  trigger_position, last_trigger_position)
       IN  /\ newpos \in Positions
           /\ trig \/ returned
           /\ position' = newpos
           /\ last_trigger_position' = IF trig THEN newpos ELSE last_trigger_position
           /\ edge_thread' = inline_callback(trig, returned)
           /\ ObserveEdge(a_state, b_state, newpos, trig, FALSE)
    /\ UNCHANGED <<impl, trigger_position, trigger_callback, trigger_enabled,
                   min_position, max_position, is_monitoring>>

\* _monitor_gpio calls the handler whenever it reads the Z line low.
RotaryEncoderLGPIO_handle_zero ==
    /\ impl = "RotaryEncoderLGPIO"
    /\ edge_thread = "ready"
    /\ monitor_loop_condition /\ chip
    /\ pin_z = 0
    /\ position' = 0
    /\ last_trigger_position' = RotaryEncoderLGPIO_zero_last_trigger(last_trigger_position)
    /\ ObserveZero(last_trigger_position')
    /\ UNCHANGED <<impl, trigger_position, trigger_callback, trigger_enabled,
                   min_position, max_position, is_monitoring>>

\* The monitor thread leaves its loop: the loop condition is false, or a
\* gpio_read on the closed chip raises and the except clause breaks.
_monitor_gpio_exit ==
    /\ impl = "RotaryEncoderLGPIO"
    /\ edge_thread = "ready"
    /\ ~monitor_loop_condition \/ ~chip
    /\ edge_thread' = "dead"
    /\ UNCHANGED <<pin_a, pin_z, threadVars>>
    /\ UNCHANGED <<encVars, obsVars, callback_threads, edgeFrame>>

RotaryEncoderLGPIO_start ==
    /\ impl = "RotaryEncoderLGPIO"
    /\ is_running' = TRUE
    /\ UNCHANGED <<pulse_thread, _stop_monitor, chip>>
    /\ UNCHANGED <<encVars, obsVars, callback_threads, dispVars, edgeFrame>>

\* The body of stop(): nothing unless is_running; otherwise the flags, and
\* monitor_thread.join(timeout=1.0), which the thread ends within (joined)
\* or not.
RotaryEncoderLGPIO_stopping(joined) ==
    IF ~is_running
    THEN UNCHANGED <<is_running, _stop_monitor, edge_thread>>
    ELSE /\ is_running' = FALSE
         /\ _stop_monitor' = TRUE
         /\ edge_thread' = IF joined /\ edge_thread = "ready" THEN "dead"
                            ELSE edge_thread

RotaryEncoderLGPIO_stop(joined) ==
    /\ impl = "RotaryEncoderLGPIO"
    /\ RotaryEncoderLGPIO_stopping(joined)
    /\ UNCHANGED <<pulse_thread, chip, pin_a, pin_z>>
    /\ UNCHANGED <<encVars, obsVars, callback_threads, edgeFrame>>

\* cleanup(): self.stop(), then the lines are freed and the chip closed.
RotaryEncoderLGPIO_cleanup(joined) ==
    /\ impl = "RotaryEncoderLGPIO"
    /\ RotaryEncoderLGPIO_stopping(joined)
    /\ chip' = FALSE
    /\ UNCHANGED <<pulse_thread, pin_a, pin_z>>
    /\ UNCHANGED <<encVars, obsVars, callback_threads, edgeFrame>>

RotaryEncoderLGPIO_set_trigger(pos) ==
    /\ impl = "RotaryEncoderLGPIO"
    /\ position \in ConfigPositions
    /\ trigger_position' = pos
    /\ trigger_callback' = TRUE
    /\ ObserveConfig
    /\ UNCHANGED <<impl, position, last_trigger_position, trigger_enabled,
                   min_position, max_position, is_monitoring>>

RotaryEncoderLGPIO_reset_position ==
    /\ impl = "RotaryEncoderLGPIO"
    /\ ~position_lock_held
    /\ position \in ConfigPositions
    /\ position' = 0
    /\ ObserveReset
    /\ UNCHANGED <<impl, last_trigger_position, trigger_position, trigger_callback,
                   trigger_enabled, min_position, max_position, is_monitoring>>

----------------------------------------------------------------------------
\* RotaryEncoder (encoder_module_refactored.py), after initialize_hardware

_handle_encoder_pulse(a_state, b_state) ==
    /\ impl = "Refactored"
    /\ edge_thread = "ready"
    /\ LET stepped == Decode(position, a_state, b_state)
           newpos == ClampToLimits(stepped, min_position, max_position)
           trig == Refactored_trigger_due(trigger_enabled, trigger_callback, newpos,
                                          trigger_position, last_trigger_position)
       IN  /\ stepped \in Positions
           /\ cwRun < MaxPos
           /\ position' = newpos
           /\ last_trigger_position' = IF trig THEN newpos ELSE last_trigger_position
           /\ edge_thread' = threaded_callback(trig)
           /\ ObserveEdge(a_state, b_state, newpos, trig, newpos # stepped)
    /\ UNCHANGED <<impl, trigger_position, trigger_callback, trigger_enabled,
                   min_position, max_position, is_monitoring>>

\* _handle_encoder_pulse in two steps: the block under position_lock ...
_handle_encoder_pulse_locked(a_state, b_state) ==
    /\ impl = "Refactored"
    /\ edge_thread = "ready"
    /\ pulse_thread = None
    /\ LET stepped == Decode(position, a_state, b_state)
           newpos == ClampToLimits(stepped, min_position, max_position)
       IN  /\ stepped \in Positions
           /\ cwRun < MaxPos
           /\ position' = newpos
           /\ pulse_thread' = Some([a_state |-> a_state, b_state |-> b_state,
                                    new_position |-> newpos,
                                    clamped |-> newpos # stepped])
    /\ UNCHANGED <<impl, last_trigger_position, trigger_position, trigger_callback,
                   trigger_enabled, min_position, max_position, is_monitoring>>
    /\ UNCHANGED <<obsVars, callback_threads, dispVars, edgeFrame>>
    /\ UNCHANGED <<is_running, _stop_monitor, chip>>

\* ... and, the lock released, the trigger test and the write of
\* last_trigger_position.
_handle_encoder_pulse_check ==
    /\ impl = "Refactored"
    /\ pulse_thread # None
    /\ LET new_position == pulse_thread[1].new_position
           trig == Refactored_trigger_due(trigger_enabled, trigger_callback,
                                          new_position, trigger_position,
                                          last_trigger_position)
       IN  /\ last_trigger_position' = IF trig THEN new_position
                                       ELSE last_trigger_position
           /\ edge_thread' = threaded_callback(trig)
           /\ ObservedEdge(pulse_thread[1].a_state, pulse_thread[1].b_state,
                           new_position, trig, pulse_thread[1].clamped)
    /\ pulse_thread' = None
    /\ UNCHANGED <<impl, position, trigger_position, trigger_callback,
                   trigger_enabled, min_position, max_position, is_monitoring>>
    /\ UNCHANGED <<pin_a, pin_z, edgeFrame>>
    /\ UNCHANGED <<is_running, _stop_monitor, chip>>

\* Runs on the thread that runs _handle_encoder_pulse.
_handle_zero_pulse ==
    /\ impl = "Refactored"
    /\ edge_thread = "ready"
    /\ pulse_thread = None
    /\ position' = 0
    /\ last_trigger_position' = Refactored_zero_last_trigger(last_trigger_position)
    /\ ObserveZero(last_trigger_position')
    /\ UNCHANGED <<impl, trigger_position, trigger_callback, trigger_enabled,
                   min_position, max_position, is_monitoring>>

reset_position(pos) ==
    /\ impl = "Refactored"
    /\ position \in ConfigPositions
    /\ position' = pos
    /\ last_trigger_position' = pos
    /\ ObserveReset
    /\ UNCHANGED <<impl, trigger_position, trigger_callback, trigger_enabled,
                   min_position, max_position, is_monitoring>>

\* start_monitoring(callback): stores the callback, then reset_position()
start_monitoring(callback) ==
    /\ impl = "Refactored"
    /\ position \in ConfigPositions
    /\ ~is_monitoring
    /\ trigger_callback' = callback
    /\ position' = 0
    /\ last_trigger_position' = 0
    /\ is_monitoring' = TRUE
    /\ ObserveReset
    /\ UNCHANGED <<impl, trigger_position, trigger_enabled, min_position, max_position>>

set_trigger_position(pos, enabled) ==
    /\ impl = "Refactored"
    /\ position \in ConfigPositions
    /\ trigger_position' = pos
    /\ trigger_enabled' = enabled
    /\ ObserveConfig
    /\ UNCHANGED <<impl, position, last_trigger_position, trigger_callback,
                   min_position, max_position, is_monitoring>>

set_position_limits(lo, hi) ==
    /\ impl = "Refactored"
    /\ position \in ConfigPositions
    /\ min_position' = lo
    /\ max_position' = hi
    /\ ObserveConfig
    /\ UNCHANGED <<impl, position, last_trigger_position, trigger_position,
                   trigger_callback, trigger_enabled, is_monitoring>>

----------------------------------------------------------------------------

\* The encoder object after construction, with the lines at levels a and z.
RotaryEncoder_init(a, z) ==
    /\ impl \in Impls
    /\ edge_thread = "ready"
    /\ pin_a = a
    /\ pin_z = z
    /\ position = 0
    /\ last_trigger_position = 0
    /\ trigger_position = DefaultTriggerPosition
    /\ trigger_callback = FALSE
    /\ trigger_enabled = TRUE
    /\ min_position = None
    /\ max_position = None
    /\ is_monitoring = FALSE
    /\ pulse_thread = None
    /\ is_running = FALSE
    /\ _stop_monitor = FALSE
    /\ chip = TRUE
    /\ lastOp = "other"
    /\ fired = FALSE
    /\ revFires = 0
    /\ cwRun = 0
    /\ clampedRun = FALSE
    /\ revClean = TRUE
    /\ inBand = TRUE
    /\ dipped = FALSE
    /\ callback_threads = 0

\* Both lines read low: every pass of the polling loop calls both handlers.
EncInit == RotaryEncoder_init(0, 0)

EncNext ==
    \/ \E a \in Levels, b \in Levels : RotaryEncoder_handle_encoder(a, b, TRUE)
    \/ RotaryEncoder_handle_zero
    \/ \E p \in TriggerPositions : RotaryEncoder_set_trigger(p)
    \/ RotaryEncoder_reset_position
    \/ \E a \in Levels, b \in Levels :
           RotaryEncoderLGPIO_handle_encoder_change(a, b, TRUE)
    \/ RotaryEncoderLGPIO_handle_zero
    \/ \E p \in TriggerPositions : RotaryEncoderLGPIO_set_trigger(p)
    \/ RotaryEncoderLGPIO_reset_position
    \/ \E a \in Levels, b \in Levels : _handle_encoder_pulse(a, b)
    \/ _handle_zero_pulse
    \/ \E p \in {0, ResetAlt} : reset_position(p)
    \/ \E cb \in BOOLEAN : start_monitoring(cb)
    \/ \E p \in TriggerPositions, en \in BOOLEAN : set_trigger_position(p, en)
    \/ \E lim \in {<<None, None>>, <<Some(LimitMin), Some(LimitMax)>>} :
           set_position_limits(lim[1], lim[2])

----------------------------------------------------------------------------
\* MQTTManager (mqtt_manager_refactored.py)

MaxPublishes == max_queue_size + 1
MsgIds == 1..MaxPublishes
QosLevels == {0, 1}
\* How one client.publish(...) followed by result.is_published() ends:
\*   "published"  accepted, is_published() is True
\*   "unacked"    accepted, is_published() is False (no acknowledgment yet)
\*   "raise"      not accepted: publish or is_published raises
SendOutcomes == {"published", "unacked", "raise"}
\* The subscriptions and messages of the dispatch exploration.
RouterPatterns == {<<"pi_sorter", "+", "#">>, <<"pi_sorter", "#">>,
                   <<"pi_sorter", "#", "status">>}
RouterTopics == {<<"pi_sorter", "cam1", "status">>, <<"pi_sorter", "status">>}
\* msg.payload: bytes that are UTF-8 and JSON, UTF-8 but not JSON, or not UTF-8
InboundPayloads == {"json", "text", "binary"}
NoMessage == [topic |-> <<>>, payload |-> "json", raising |-> {}]

\* Topics passed to subscribe_to_topic / unsubscribe_from_topic.
Topics == {"status", "results"}
\* Values of reconnect_delay in the broker configuration.
ReconnectDelays == {2, DefaultReconnectDelay}
\* CONNACK return codes: accepted, refused (not authorised).
ConnackCodes == {0, 5}

Ids(q) == {q[i].id : i \in 1..Len(q)}
InQueue(id) == id \in Ids(message_queue)
QueueIds(q) == [i \in 1..Len(q) |-> q[i].id]

\* Messages get their ids in publish order: a sequence of ids is in publish
\* order when it is increasing.
Increasing(ids) == \A i, j \in 1..Len(ids) : i < j => ids[i] < ids[j]

\* Mutation: the queue is found full one entry too late.
queue_is_full_off_by_one(q) == Len(q) > max_queue_size

\* len(self.message_queue) >= self.max_queue_size
queue_is_full(q) == Len(q) >= max_queue_size

\* The counters of self.stats.
StatsCounters == {"messages_sent", "messages_received", "connection_attempts",
                  "disconnections"}

\* What one _cache_message call adds to each counter of self.stats; full
\* tells whether it popped the oldest entry first (it logs a warning then).
_cache_message_counts(full) == [k \in StatsCounters |-> 0]

\* _cache_message: pop(0) when full, then append
cached(q, msg) ==
    Append(IF queue_is_full(q) THEN Tail(q) ELSE q, msg)

\* The observer's record of one client.publish call on msg ending as r.
Hand(h, msg, r) ==
    IF r = "raise" THEN h ELSE [h EXCEPT ![msg.id] = IF @ >= 1 THEN 2 ELSE 1]

Unacked(u, msg, r) ==
    IF r = "unacked" /\ msg.qos >= 1 THEN u \cup {msg.id}
    ELSE IF r = "published" THEN u \ {msg.id}
    ELSE u

RECURSIVE HandAll(_, _, _)
HandAll(h, q, o) ==
    IF q = <<>> THEN h ELSE HandAll(Hand(h, Head(q), o[1]), Tail(q), Tail(o))

RECURSIVE UnackedAll(_, _, _)
UnackedAll(u, q, o) ==
    IF q = <<>> THEN u ELSE UnackedAll(Unacked(u, Head(q), o[1]), Tail(q), Tail(o))

RECURSIVE failed_messages_reversed(_, _)
\* Mutation: the unsent messages are collected newest first.
failed_messages_reversed(q, o) ==
    IF q = <<>> THEN <<>>
    ELSE IF o[1] = "published" THEN failed_messages_reversed(Tail(q), Tail(o))
         ELSE failed_messages_reversed(Tail(q), Tail(o)) \o <<Head(q)>>

RECURSIVE failed_messages(_, _)
\* flush_message_queue: the messages whose is_published() was False or that raised
failed_messages(q, o) ==
    IF q = <<>> THEN <<>>
    ELSE IF o[1] = "published" THEN failed_messages(Tail(q), Tail(o))
         ELSE <<Head(q)>> \o failed_messages(Tail(q), Tail(o))

RECURSIVE publish_calls(_)
\* flush_message_queue: the ids of the messages client.publish is called with by
\* "for message_data in self.message_queue", in call order
publish_calls(q) ==
    IF q = <<>> THEN <<>> ELSE <<Head(q).id>> \o publish_calls(Tail(q))

OutcomeSeqs(n) == [1..n -> SendOutcomes]

\* The body of flush_message_queue once is_connected holds: every queued
\* message is published in queue order, o[i] being how the i-th send ends.
Flush(o) ==
    /\ message_queue' = failed_messages(message_queue, o)
    /\ handed' = HandAll(handed, message_queue, o)
    /\ unacked' = UnackedAll(unacked, message_queue, o)
    /\ fifo_ok' = (/\ fifo_ok
                   /\ Increasing(publish_calls(message_queue))
                   /\ Increasing(QueueIds(message_queue')))

\* The reconnect thread is running.
reconnect_thread_is_alive == reconnect_thread \in {"loop", "sleeping", "connecting"}

\* A step that does not invoke the connection callback.
NoEvent == connection_events' = 0

flush_message_queue ==
    /\ is_connected
    /\ message_queue # <<>>
    /\ \E o \in OutcomeSeqs(Len(message_queue)) : Flush(o)
    /\ NoEvent
    /\ UNCHANGED <<is_connected, is_connecting, client, waiting, loop_running,
                   published, evicted>>
    /\ UNCHANGED <<connVars, acked, disconnect_requested>>
    /\ UNCHANGED mqttFrame

publish_message(qos, outcome) ==
    /\ published < MaxPublishes
    /\ LET msg == [id |-> published + 1, qos |-> qos]
       IN  /\ published' = msg.id
           /\ IF ~is_connected
              THEN /\ outcome = "raise"
                   /\ message_queue' = cached(message_queue, msg)
                   /\ evicted' = IF queue_is_full(message_queue)
                                 THEN evicted \cup {Head(message_queue).id}
                                 ELSE evicted
                   /\ UNCHANGED <<handed, unacked>>
              ELSE /\ handed' = Hand(handed, msg, outcome)
                   /\ unacked' = Unacked(unacked, msg, outcome)
                   /\ UNCHANGED <<message_queue, evicted>>
    /\ NoEvent
    /\ UNCHANGED <<is_connected, is_connecting, client, waiting, loop_running,
                   fifo_ok>>
    /\ UNCHANGED <<connVars, acked, disconnect_requested>>
    /\ UNCHANGED mqttFrame

\* The broker's acknowledgment of mid reaches the client: the handler is a pass.
_on_publish_handler(mid) ==
    /\ loop_running
    /\ is_connected
    /\ mid \in unacked
    /\ unacked' = unacked \ {mid}
    /\ NoEvent
    /\ UNCHANGED <<is_connected, is_connecting, client, message_queue, waiting,
                   loop_running, published, handed, evicted, fifo_ok>>
    /\ UNCHANGED <<connVars, acked, disconnect_requested>>
    /\ UNCHANGED mqttFrame

\* publish_message on a caller's thread, up to "if not self.is_connected":
\* connected, the message goes to client.publish; otherwise the call is on
\* its way to _cache_message.
publish_message_check(qos, outcome) ==
    /\ published < MaxPublishes
    /\ publish_thread = <<>>
    /\ LET msg == [id |-> published + 1, qos |-> qos]
       IN  /\ published' = msg.id
           /\ IF ~is_connected
              THEN /\ outcome = "raise"
                   /\ publish_thread' = <<msg>>
                   /\ UNCHANGED <<handed, unacked>>
              ELSE /\ handed' = Hand(handed, msg, outcome)
                   /\ unacked' = Unacked(unacked, msg, outcome)
                   /\ UNCHANGED publish_thread
    /\ NoEvent
    /\ UNCHANGED <<mqttVars, evicted, fifo_ok>>
    /\ UNCHANGED <<connVars, acked, disconnect_requested, stop_requested>>
    /\ UNCHANGED managerFrame

\* ... and _cache_message, whatever is_connected has become meanwhile.
publish_message_cache ==
    /\ publish_thread # <<>>
    /\ message_queue' = cached(message_queue, publish_thread[1])
    /\ evicted' = IF queue_is_full(message_queue)
                  THEN evicted \cup {Head(message_queue).id}
                  ELSE evicted
    /\ publish_thread' = <<>>
    /\ NoEvent
    /\ UNCHANGED <<is_connected, is_connecting, client, waiting, loop_running,
                   published, handed, unacked, fifo_ok>>
    /\ UNCHANGED <<connVars, acked, disconnect_requested, stop_requested>>
    /\ UNCHANGED managerFrame

\* Mutation: no finally clause when client.connect fails.
connect_to_broker_no_finally(result) ==
    /\ IF is_connected \/ is_connecting
       THEN /\ is_connecting
            /\ result = "ok"
            /\ is_connecting' = FALSE
            /\ UNCHANGED <<client, waiting, loop_running, broker_subs>>
       ELSE /\ ~waiting
            /\ client' = TRUE
            /\ broker_subs' = {}
            /\ IF result = "ok"
               THEN is_connecting' = TRUE /\ loop_running' = TRUE /\ waiting' = TRUE
               ELSE is_connecting' = TRUE /\ loop_running' = FALSE /\ waiting' = FALSE
    /\ disconnect_requested' = FALSE
    /\ NoEvent
    /\ UNCHANGED <<is_connected, message_queue, queueObs>>
    /\ UNCHANGED <<reconnect_delay, reconnVars, message_callbacks,
                   connection_callback, acked>>
    /\ UNCHANGED mqttFrame

\* connect_to_broker called by the user of the manager, up to its wait loop;
\* result is what client.connect gives.
connect_to_broker(result) ==
    /\ IF is_connected \/ is_connecting
       THEN \* return True / return False, then the finally clause
            /\ is_connecting
            /\ result = "ok"
            /\ is_connecting' = FALSE
            /\ UNCHANGED <<client, waiting, loop_running, broker_subs>>
       ELSE /\ ~waiting
            /\ client' = TRUE
            /\ broker_subs' = {}     \* a new client, clean_session=True
            /\ IF result = "ok"
               THEN is_connecting' = TRUE /\ loop_running' = TRUE /\ waiting' = TRUE
               ELSE is_connecting' = FALSE /\ loop_running' = FALSE /\ waiting' = FALSE
    /\ disconnect_requested' = FALSE
    /\ NoEvent
    /\ UNCHANGED <<is_connected, message_queue, queueObs>>
    /\ UNCHANGED <<reconnect_delay, reconnVars, message_callbacks,
                   connection_callback, acked>>
    /\ UNCHANGED mqttFrame

\* connect_to_broker leaving its wait loop: connected, or timed out.
connect_to_broker_return ==
    /\ waiting
    /\ waiting' = FALSE
    /\ is_connecting' = FALSE
    /\ loop_running' = IF is_connected THEN loop_running ELSE FALSE
    /\ NoEvent
    /\ UNCHANGED <<is_connected, client, message_queue, queueObs>>
    /\ UNCHANGED <<connVars, acked, disconnect_requested>>
    /\ UNCHANGED mqttFrame

\* Mutation: every CONNACK is taken for an acceptance.
connack_accepted_any(rc) == TRUE

\* _on_connect_handler: if rc == 0
connack_accepted(rc) == rc = 0

\* rc is the CONNACK code; o is how the sends of the flush end.
_on_connect_handler(rc, o) ==
    /\ loop_running
    /\ ~is_connected
    /\ IF connack_accepted(rc)
       THEN /\ is_connected' = TRUE
            /\ reconnect_attempts' = 0
            /\ IF message_queue = <<>>
               THEN o = <<>> /\ UNCHANGED <<message_queue, handed, unacked, fifo_ok>>
               ELSE o \in OutcomeSeqs(Len(message_queue)) /\ Flush(o)
            /\ connection_events' = IF connection_callback THEN 1 ELSE 0
       ELSE /\ o = <<>>
            /\ is_connected' = FALSE
            /\ NoEvent
            /\ UNCHANGED <<message_queue, handed, unacked, fifo_ok,
                           reconnect_attempts>>
    \* the observer's view of the acknowledgment
    /\ acked' = (rc = 0)
    /\ streak' = IF rc = 0 THEN 0 ELSE streak
    /\ UNCHANGED <<is_connecting, client, waiting, loop_running, published, evicted>>
    /\ UNCHANGED <<reconnect_delay, reconnect_thread, delay, subsVars,
                   connection_callback, disconnect_requested>>
    /\ UNCHANGED mqttFrame

\* The transport is lost (or a DISCONNECT completes) and the client reports it.
_on_disconnect_handler ==
    /\ loop_running
    /\ is_connected
    /\ is_connected' = FALSE
    /\ connection_events' = IF connection_callback THEN 1 ELSE 0
    /\ broker_subs' = {}             \* clean session: the broker drops the session
    /\ acked' = FALSE
    /\ UNCHANGED <<is_connecting, client, message_queue, waiting, loop_running,
                   queueObs>>
    /\ UNCHANGED <<reconnect_delay, reconnVars, message_callbacks,
                   connection_callback, disconnect_requested>>
    /\ UNCHANGED mqttFrame

\* delivered: the client's network thread runs on_disconnect before
\* loop_stop() joins it.
disconnect_from_broker(delivered) ==
    /\ IF ~is_connected \/ ~client
       THEN \* return True
            /\ ~delivered
            /\ NoEvent
            /\ UNCHANGED <<loop_running, is_connected, client, broker_subs, acked>>
       ELSE /\ loop_running' = FALSE
            /\ is_connected' = FALSE
            /\ client' = FALSE
            /\ broker_subs' = {}
            /\ acked' = FALSE
            /\ connection_events' = IF delivered /\ connection_callback THEN 1 ELSE 0
    /\ disconnect_requested' = (disconnect_requested \/ reconnect_thread_is_alive)
    /\ UNCHANGED <<is_connecting, message_queue, waiting, queueObs>>
    /\ UNCHANGED <<reconnect_delay, reconnVars, message_callbacks,
                   connection_callback>>
    /\ UNCHANGED mqttFrame

set_connection_callback(callback) ==
    /\ connection_callback' = callback
    /\ NoEvent
    /\ UNCHANGED <<mqttVars, queueObs, reconnect_delay, reconnVars, subsVars>>
    /\ UNCHANGED <<acked, disconnect_requested>>
    /\ UNCHANGED mqttFrame

\* result is what client.subscribe gives.
subscribe_to_topic(topic, callback, result) ==
    /\ IF ~is_connected
       THEN \* return False
            /\ ~callback
            /\ result = 0
            /\ UNCHANGED subsVars
       ELSE /\ message_callbacks' = IF callback THEN message_callbacks \cup {topic}
                                    ELSE message_callbacks
            /\ broker_subs' = IF result = 0 THEN broker_subs \cup {topic}
                              ELSE broker_subs
    /\ NoEvent
    /\ UNCHANGED <<mqttVars, queueObs, reconnect_delay, reconnVars,
                   connection_callback>>
    /\ UNCHANGED <<acked, disconnect_requested>>
    /\ UNCHANGED mqttFrame

\* result is what client.unsubscribe gives.
unsubscribe_from_topic(topic, result) ==
    /\ IF ~is_connected
       THEN \* return True
            /\ result = 0
            /\ UNCHANGED subsVars
       ELSE /\ message_callbacks' = message_callbacks \ {topic}
            /\ broker_subs' = IF result = 0 THEN broker_subs \ {topic}
                              ELSE broker_subs
    /\ NoEvent
    /\ UNCHANGED <<mqttVars, queueObs, reconnect_delay, reconnVars,
                   connection_callback>>
    /\ UNCHANGED <<acked, disconnect_requested>>
    /\ UNCHANGED mqttFrame

start_auto_reconnect ==
    /\ reconnect_thread' = IF reconnect_thread_is_alive THEN reconnect_thread
                           ELSE "loop"
    /\ stop_requested' = FALSE
    /\ NoEvent
    /\ UNCHANGED <<mqttVars, queueObs, reconnect_delay, reconnect_attempts, delay,
                   streak, subsVars, connection_callback>>
    /\ UNCHANGED <<acked, disconnect_requested, publish_thread>>
    /\ UNCHANGED managerFrame

\* stop_auto_reconnect: reconnect_thread.join(timeout=5) when the thread is
\* alive, then return True; nothing is written that the loop reads.
stop_auto_reconnect ==
    /\ stop_requested' = TRUE
    /\ NoEvent
    /\ UNCHANGED <<mqttVars, queueObs, connVars>>
    /\ UNCHANGED <<acked, disconnect_requested, publish_thread>>
    /\ UNCHANGED managerFrame

\* Mutation: the exponent is one too high.
backoff_delay_late(base, attempts) ==
    Min(base * 2^(attempts + 1), MaxDelay)

\* delay = min(self.reconnect_delay * (2 ** self.reconnect_attempts), 60)
backoff_delay(base, attempts) ==
    Min(base * 2^attempts, MaxDelay)

\* One pass of the loop's head: already connected, attempts used up, or the
\* delay is computed and the sleep begins.
_reconnect_loop ==
    /\ reconnect_thread = "loop"
    /\ IF is_connected
       THEN UNCHANGED <<reconnect_thread, delay>>      \* sleep(1); continue
       ELSE IF reconnect_attempts >= max_reconnect_attempts
            THEN reconnect_thread' = "exited" /\ UNCHANGED delay      \* break
            ELSE /\ delay' = backoff_delay(reconnect_delay, reconnect_attempts)
                 /\ reconnect_thread' = "sleeping"
    /\ NoEvent
    /\ UNCHANGED <<mqttVars, queueObs, reconnect_delay, reconnect_attempts, streak,
                   subsVars, connection_callback>>
    /\ UNCHANGED <<acked, disconnect_requested>>
    /\ UNCHANGED mqttFrame

\* The sleep is over and the loop calls connect_to_broker, up to its wait
\* loop; result is what client.connect gives.
_reconnect_loop_connect(result) ==
    /\ reconnect_thread = "sleeping"
    /\ IF is_connected
       THEN \* connect_to_broker returns True
            /\ result = "ok"
            /\ is_connecting' = FALSE
            /\ reconnect_thread' = "loop"
            /\ UNCHANGED <<client, loop_running, broker_subs, reconnect_attempts,
                           streak>>
       ELSE IF is_connecting
            THEN \* connect_to_broker returns False
                 /\ result = "ok"
                 /\ is_connecting' = FALSE
                 /\ reconnect_attempts' = reconnect_attempts + 1
                 /\ streak' = streak + 1
                 /\ reconnect_thread' = "loop"
                 /\ UNCHANGED <<client, loop_running, broker_subs>>
            ELSE /\ client' = TRUE
                 /\ broker_subs' = {}
                 /\ IF result = "ok"
                    THEN /\ is_connecting' = TRUE
                         /\ loop_running' = TRUE
                         /\ reconnect_thread' = "connecting"
                         /\ UNCHANGED <<reconnect_attempts, streak>>
                    ELSE /\ is_connecting' = FALSE
                         /\ loop_running' = FALSE
                         /\ reconnect_attempts' = reconnect_attempts + 1
                         /\ streak' = streak + 1
                         /\ reconnect_thread' = "loop"
    /\ NoEvent
    /\ UNCHANGED <<is_connected, message_queue, waiting, queueObs>>
    /\ UNCHANGED <<reconnect_delay, delay, message_callbacks, connection_callback>>
    /\ UNCHANGED <<acked, disconnect_requested>>
    /\ UNCHANGED mqttFrame

\* The loop's connect_to_broker call leaves its wait loop: connected, or
\* timed out.
_reconnect_loop_return ==
    /\ reconnect_thread = "connecting"
    /\ reconnect_thread' = "loop"
    /\ is_connecting' = FALSE
    /\ IF is_connected
       THEN UNCHANGED <<loop_running, reconnect_attempts, streak>>
       ELSE /\ loop_running' = FALSE
            /\ reconnect_attempts' = reconnect_attempts + 1
            /\ streak' = streak + 1
    /\ NoEvent
    /\ UNCHANGED <<is_connected, client, message_queue, waiting, queueObs>>
    /\ UNCHANGED <<reconnect_delay, delay, subsVars, connection_callback>>
    /\ UNCHANGED <<acked, disconnect_requested>>
    /\ UNCHANGED mqttFrame

\* MQTTManager.__init__ with reconnect_delay rd in the broker configuration.
MQTTManager_init(rd) ==
    /\ is_connected = FALSE
    /\ is_connecting = FALSE
    /\ client = FALSE
    /\ message_queue = <<>>
    /\ waiting = FALSE
    /\ loop_running = FALSE
    /\ published = 0
    /\ handed = [id \in MsgIds |-> 0]
    /\ unacked = {}
    /\ evicted = {}
    /\ fifo_ok = TRUE
    /\ reconnect_delay = rd
    /\ reconnect_attempts = 0
    /\ reconnect_thread = "none"
    /\ delay = 0
    /\ message_callbacks = {}
    /\ broker_subs = {}
    /\ connection_callback = FALSE
    /\ acked = FALSE
    /\ connection_events = 0
    /\ streak = 0
    /\ disconnect_requested = FALSE
    /\ arrived = NoMessage
    /\ invoked = [p \in RouterPatterns |-> 0]
    /\ handler_payload = "none"
    /\ stop_requested = FALSE
    /\ publish_thread = <<>>

MqttInit == MQTTManager_init(DefaultReconnectDelay)

\* The publish path and the offline queue.
MqttNext ==
    \/ \E r \in {"ok", "error"} : connect_to_broker(r)
    \/ connect_to_broker_return
    \/ \E rc \in ConnackCodes, o \in OutcomeSeqs(Len(message_queue)) \cup {<<>>} :
           _on_connect_handler(rc, o)
    \/ _on_disconnect_handler
    \/ \E d \in BOOLEAN : disconnect_from_broker(d)
    \/ \E q \in QosLevels, r \in SendOutcomes : publish_message(q, r)
    \/ flush_message_queue
    \/ \E mid \in MsgIds : _on_publish_handler(mid)

\* The connection life cycle with the reconnect loop, the subscriptions and
\* the connection callback.
ConnectionNext ==
    \/ \E r \in {"ok", "error"} : connect_to_broker(r)
    \/ connect_to_broker_return
    \/ \E rc \in ConnackCodes : _on_connect_handler(rc, <<>>)
    \/ _on_disconnect_handler
    \/ \E d \in BOOLEAN : disconnect_from_broker(d)
    \/ \E cb \in BOOLEAN : set_connection_callback(cb)
    \/ \E t \in Topics, cb \in BOOLEAN, r \in {0, 1} : subscribe_to_topic(t, cb, r)
    \/ \E t \in Topics, r \in {0, 1} : unsubscribe_from_topic(t, r)
    \/ start_auto_reconnect
    \/ _reconnect_loop
    \/ \E r \in {"ok", "error"} : _reconnect_loop_connect(r)
    \/ _reconnect_loop_return

----------------------------------------------------------------------------
\* Topic matching and inbound dispatch (mqtt_manager_refactored.py).  A topic
\* or a pattern is the sequence of its levels, what str.split('/') gives;
\* the levels used here hold no "+" or "#" unless they are that one character,
\* so "'+' in subscribed_topic" is "some level is +".

TopicLevels == {"pi_sorter", "cam1", "status", ""}
PatternLevels == {"pi_sorter", "status", "+", "#"}
SeqsUpTo(S, n) == UNION {[1..k -> S] : k \in 1..n}
\* a topic name has at least one character
ReceivedTopics == SeqsUpTo(TopicLevels, MaxTopicLevels) \ {<<"">>}
SubscribedTopics == SeqsUpTo(PatternLevels, MaxPatternLevels)

HasLevel(parts, level) == \E i \in DOMAIN parts : parts[i] = level

\* zip() stops at the shorter list.
_topic_matches_no_length_check(subscribed_topic, received_topic) ==
    IF subscribed_topic = received_topic THEN TRUE
    ELSE IF HasLevel(subscribed_topic, "+")
    THEN \A i \in 1..Min(Len(subscribed_topic), Len(received_topic)) :
             subscribed_topic[i] = "+" \/ subscribed_topic[i] = received_topic[i]
    ELSE IF HasLevel(subscribed_topic, "#")
    THEN /\ subscribed_topic[Len(subscribed_topic)] = "#"
         /\ \A i \in 1..(Len(subscribed_topic) - 1) :
                /\ i <= Len(received_topic)
                /\ (subscribed_topic[i] = received_topic[i] \/ subscribed_topic[i] = "+")
    ELSE FALSE

_topic_matches_strict_hash(subscribed_topic, received_topic) ==
    IF subscribed_topic = received_topic THEN TRUE
    ELSE IF HasLevel(subscribed_topic, "+")
    THEN /\ Len(subscribed_topic) = Len(received_topic)
         /\ \A i \in DOMAIN subscribed_topic :
                subscribed_topic[i] = "+" \/ subscribed_topic[i] = received_topic[i]
    ELSE IF HasLevel(subscribed_topic, "#")
    THEN /\ subscribed_topic[Len(subscribed_topic)] = "#"
         /\ Len(received_topic) >= Len(subscribed_topic)
         /\ \A i \in 1..(Len(subscribed_topic) - 1) :
                /\ i <= Len(received_topic)
                /\ (subscribed_topic[i] = received_topic[i] \/ subscribed_topic[i] = "+")
    ELSE FALSE

_topic_matches(subscribed_topic, received_topic) ==
    IF subscribed_topic = received_topic THEN TRUE
    ELSE IF HasLevel(subscribed_topic, "+")
    THEN /\ Len(subscribed_topic) = Len(received_topic)
         /\ \A i \in DOMAIN subscribed_topic :
                subscribed_topic[i] = "+" \/ subscribed_topic[i] = received_topic[i]
    ELSE IF HasLevel(subscribed_topic, "#")
    THEN /\ subscribed_topic[Len(subscribed_topic)] = "#"
         /\ \A i \in 1..(Len(subscribed_topic) - 1) :
                /\ i <= Len(received_topic)
                /\ (subscribed_topic[i] = received_topic[i] \/ subscribed_topic[i] = "+")
    ELSE FALSE

\* One call of _topic_matches, as _on_message_handler makes it.
_topic_matches_call ==
    /\ mt_stage = "called"
    /\ mt_result' = _topic_matches(mt_pattern, mt_topic)
    /\ mt_stage' = "returned"
    /\ UNCHANGED <<mt_pattern, mt_topic>>
    /\ UNCHANGED matchFrame

\* The next message is matched against the same subscription.
_topic_matches_next(received_topic) ==
    /\ mt_stage = "returned"
    /\ received_topic # mt_topic
    /\ mt_topic' = received_topic
    /\ mt_stage' = "called"
    /\ UNCHANGED <<mt_pattern, mt_result>>
    /\ UNCHANGED matchFrame

MatchIdle ==
    /\ mt_pattern = <<>>
    /\ mt_topic = <<>>
    /\ mt_stage = "idle"
    /\ mt_result = FALSE

MatchStart ==
    /\ mt_pattern \in SubscribedTopics
    /\ mt_topic \in ReceivedTopics
    /\ mt_stage = "called"
    /\ mt_result = FALSE

\* Topics of the messages that follow the first one.
NextTopics == {<<"pi_sorter">>, <<"pi_sorter", "cam1", "status">>}

MatchNext ==
    \/ _topic_matches_call
    \/ \E t \in NextTopics : _topic_matches_next(t)

\* The broker's side of a subscription: which topics it forwards for a filter
\* it holds ("+" is one level, "#" the last level of the filter only).
RECURSIVE broker_forwards(_, _)
broker_forwards(filter, topic) ==
    IF filter = <<>> THEN topic = <<>>
    ELSE IF Head(filter) = "#" THEN Len(filter) = 1
    ELSE IF topic = <<>> THEN FALSE
    ELSE /\ Head(filter) = "+" \/ Head(filter) = Head(topic)
         /\ broker_forwards(Tail(filter), Tail(topic))

\* payload_data as the handlers get it: json.loads(payload_str); on
\* JSONDecodeError the decoded text itself; when decoding fails, str(msg.payload).
payload_data_discard(payload) ==
    CASE payload = "json" -> "object"
      [] payload = "text" -> "none"
      [] payload = "binary" -> "none"

payload_data(payload) ==
    CASE payload = "json" -> "object"
      [] payload = "text" -> "payload_str"
      [] payload = "binary" -> "str(msg.payload)"

\* The loop over self.message_callbacks: every callback whose key matches is
\* called inside its own try/except, so one that raises (raising) stops
\* nothing.
handler_calls(callbacks, topic, raising) ==
    [p \in RouterPatterns |->
        IF p \in callbacks /\ _topic_matches(p, topic) THEN 1 ELSE 0]

_on_message_handler(topic, payload, raising) ==
    /\ loop_running
    /\ \E f \in broker_subs : broker_forwards(f, topic)
    /\ raising \subseteq message_callbacks
    /\ arrived' = [topic |-> topic, payload |-> payload, raising |-> raising]
    /\ invoked' = handler_calls(message_callbacks, topic, raising)
    /\ handler_payload' = IF \E p \in RouterPatterns : invoked'[p] > 0
                    THEN payload_data(payload) ELSE "none"
    /\ NoEvent
    /\ UNCHANGED <<mqttVars, queueObs, connVars>>
    /\ UNCHANGED <<acked, disconnect_requested>>
    /\ UNCHANGED routeFrame

RouterNext ==
    \/ \E r \in {"ok", "error"} : connect_to_broker(r)
    \/ connect_to_broker_return
    \/ \E rc \in ConnackCodes : _on_connect_handler(rc, <<>>)
    \/ _on_disconnect_handler
    \/ \E t \in RouterPatterns, cb \in BOOLEAN, r \in {0, 1} : subscribe_to_topic(t, cb, r)
    \/ \E t \in RouterPatterns, r \in {0, 1} : unsubscribe_from_topic(t, r)
    \/ \E t \in RouterTopics, pl \in InboundPayloads,
          raising \in {{}} \cup {{p} : p \in RouterPatterns} :
           _on_message_handler(t, pl, raising)

----------------------------------------------------------------------------
\* One publish_message call followed through the offline queue, with the
\* arguments of the call kept (mqtt_manager_refactored.py).

PayloadKinds == {"dict", "str", "bytes", "other"}
PayloadValues == {1, 2}
Payloads == [kind : PayloadKinds, val : PayloadValues]
Calls == [topic : Topics, payload : Payloads, qos : {0, 1, 2}, retain : BOOLEAN]
NoCall == [topic |-> "status", payload |-> [kind |-> "str", val |-> 1],
           qos |-> 0, retain |-> FALSE]

\* publish_message: the conversion of the payload into the message to send.
\* enc tells a JSON text and a str() text from the string or bytes as given.
to_message(payload) ==
    IF payload.kind = "dict"
    THEN [type |-> "str", enc |-> "json", val |-> payload.val]
    ELSE IF payload.kind = "str"
    THEN [type |-> "str", enc |-> "raw", val |-> payload.val]
    ELSE IF payload.kind = "bytes"
    THEN [type |-> "bytes", enc |-> "raw", val |-> payload.val]
    ELSE [type |-> "str", enc |-> "repr", val |-> payload.val]

\* publish_message, connected: self.client.publish(topic, message, qos, retain)
direct_args(call) ==
    <<call.topic, to_message(call.payload), call.qos, call.retain>>

\* Mutation: the retain flag is not kept in the queue entry.
message_data_no_retain(topic, message, qos, retain) ==
    [topic |-> topic, message |-> message, qos |-> qos, retain |-> FALSE]

\* _cache_message: the queue entry (its timestamp is not passed on)
message_data(topic, message, qos, retain) ==
    [topic |-> topic, message |-> message, qos |-> qos, retain |-> retain]

\* flush_message_queue: the arguments of self.client.publish for a queue entry
queued_args(entry) ==
    <<entry.topic, entry.message, entry.qos, entry.retain>>

\* publish_message with the manager connected or not.
publish_message_call(connected) ==
    /\ rt_stage = "called"
    /\ IF connected
       THEN /\ rt_sent' = direct_args(rt_call)
            /\ rt_stage' = "direct"
            /\ UNCHANGED rt_queue
       ELSE /\ rt_queue' = <<message_data(rt_call.topic, to_message(rt_call.payload),
                                         rt_call.qos, rt_call.retain)>>
            /\ rt_stage' = "cached"
            /\ UNCHANGED rt_sent
    /\ UNCHANGED rt_call
    /\ UNCHANGED rtFrame

\* flush_message_queue sending the cached entry after the reconnect.
flush_message_queue_call ==
    /\ rt_stage = "cached"
    /\ rt_sent' = queued_args(Head(rt_queue))
    /\ rt_queue' = <<>>
    /\ rt_stage' = "flushed"
    /\ UNCHANGED rt_call
    /\ UNCHANGED rtFrame

RoundTripIdle ==
    /\ rt_call = NoCall
    /\ rt_stage = "idle"
    /\ rt_queue = <<>>
    /\ rt_sent = <<>>

RoundTripStart ==
    /\ rt_call \in Calls
    /\ rt_stage = "called"
    /\ rt_queue = <<>>
    /\ rt_sent = <<>>

RoundTripNext ==
    \/ \E c \in BOOLEAN : publish_message_call(c)
    \/ flush_message_queue_call

----------------------------------------------------------------------------
\* Topics _handle_encoder_trigger publishes on once the capture call has
\* ended with result: the return value is not looked at and the status event
\* follows; an exception goes to the except clause, which logs it.
after_capture(result) ==
    IF result # "raise" THEN {"status"} ELSE {}

----------------------------------------------------------------------------
\* IntegratedSortingSystem: the callback the encoder trigger is wired to
\* (integrated_sorting_system.py), run by the threads the refactored encoder
\* starts.

\* A callback thread runs _execute_trigger_callback, which calls
\* _handle_encoder_trigger: it calls the camera manager's capture; started
\* tells whether the call is under way or raised at once.
_handle_encoder_trigger(started) ==
    /\ callback_threads > 0
    /\ captures_in_flight < MaxThreads
    /\ callback_threads' = callback_threads - 1
    /\ captures_in_flight' = IF started THEN captures_in_flight + 1
                             ELSE captures_in_flight
    /\ capture_result' = IF started THEN capture_result ELSE "raise"
    /\ trigger_published' = IF started THEN trigger_published
                            ELSE trigger_published \cup after_capture("raise")
    /\ UNCHANGED <<encVars, obsVars>>
    /\ UNCHANGED coordFrame

\* A capture call ends with result ("ok", "error" for a reported failure,
\* "raise"), and _handle_encoder_trigger goes on from there.
trigger_single_capture_return(result) ==
    /\ captures_in_flight > 0
    /\ captures_in_flight' = captures_in_flight - 1
    /\ capture_result' = result
    /\ trigger_published' = trigger_published \cup after_capture(result)
    /\ UNCHANGED callback_threads
    /\ UNCHANGED <<encVars, obsVars>>
    /\ UNCHANGED coordFrame

CoordIdle ==
    /\ captures_in_flight = 0
    /\ capture_result = "none"
    /\ trigger_published = {}

CoordNext ==
    \/ \E a \in Levels, b \in Levels : _handle_encoder_pulse(a, b)
    \/ _handle_zero_pulse
    \/ \E cb \in BOOLEAN : start_monitoring(cb)
    \/ \E s \in BOOLEAN : _handle_encoder_trigger(s)
    \/ \E r \in {"ok", "error", "raise"} : trigger_single_capture_return(r)

----------------------------------------------------------------------------
\* Specifications: each object on its own, the others idle.

----------------------------------------------------------------------------
\* SystemMonitor (system_monitor.py)

MaxMetric == 2
MaxNotifications == 3

Rules == {"high_cpu", "high_temp"}
MetricValues == 0..MaxMetric
\* metric names a rule can carry: one that self.metrics has, one it has not
RuleMetrics == {"cpu_percent", "gpu_percent"}
Thresholds == {1}
Operators == {">", "<", ">=", "<=", "==", "!="}
RuleConfigs == [metric : RuleMetrics, threshold : Thresholds, operator : Operators]

\* "triggered" as _check_alert_rules computes it from the operator
Compare(operator, current_value, threshold) ==
    CASE operator = ">" -> current_value > threshold
      [] operator = "<" -> current_value < threshold
      [] operator = ">=" -> current_value >= threshold
      [] operator = "<=" -> current_value <= threshold
      [] operator = "==" -> current_value = threshold
      [] operator = "!=" -> current_value # threshold
      [] OTHER -> FALSE

\* self.alert_status.get(rule_name, False)
alert_status_get(rule_name) == alert_status[rule_name] = "true"

\* Mutation: a notification at every check that finds the condition met.
alert_transition_level(triggered, status) ==
    IF triggered THEN "triggered"
    ELSE IF status THEN "recovered" ELSE "none"

\* What _check_alert_rules does for a rule whose condition is / is not met
\* ("triggered") while its status is "status": _trigger_alert, _recover_alert
\* or nothing.
alert_transition(triggered, status) ==
    IF triggered
    THEN IF ~status THEN "triggered" ELSE "none"
    ELSE IF status THEN "recovered" ELSE "none"

\* One pass of the loop body of _check_alert_rules for rule_name.
rule_transition(rule_name) ==
    IF alert_rules[rule_name] = None THEN "none"
    ELSE LET rule_config == alert_rules[rule_name][1]
         IN  IF rule_config.metric \notin DOMAIN metrics THEN "none"
             ELSE alert_transition(Compare(rule_config.operator,
                                           metrics[rule_config.metric],
                                           rule_config.threshold),
                                   alert_status_get(rule_name))

SystemMonitor_init ==
    /\ metrics = [cpu_percent |-> 0]
    /\ alert_rules = [r \in Rules |-> None]
    /\ alert_status = [r \in Rules |-> "absent"]
    /\ notifications = [r \in Rules |-> <<>>]

_collect_system_metrics(cpu_percent) ==
    /\ metrics' = [metrics EXCEPT !.cpu_percent = cpu_percent]
    /\ UNCHANGED <<alert_rules, alert_status, notifications>>
    /\ UNCHANGED monFrame

_check_alert_rules ==
    /\ \A r \in Rules : Len(notifications[r]) < MaxNotifications
    /\ alert_status' = [r \in Rules |->
           CASE rule_transition(r) = "triggered" -> "true"
             [] rule_transition(r) = "recovered" -> "false"
             [] OTHER -> alert_status[r]]
    /\ notifications' = [r \in Rules |->
           IF rule_transition(r) = "none" THEN notifications[r]
           ELSE Append(notifications[r], rule_transition(r))]
    /\ UNCHANGED <<metrics, alert_rules>>
    /\ UNCHANGED monFrame

add_alert_rule(name, metric, threshold, operator) ==
    /\ alert_rules' = [alert_rules EXCEPT ![name] =
           Some([metric |-> metric, threshold |-> threshold, operator |-> operator])]
    /\ UNCHANGED <<metrics, alert_status, notifications>>
    /\ UNCHANGED monFrame

\* remove_alert_rule deletes the rule and its alert_status entry: the rule
\* is gone, and a rule added under that name later is a new one.
remove_alert_rule(name) ==
    /\ IF alert_rules[name] # None
       THEN /\ alert_rules' = [alert_rules EXCEPT ![name] = None]
            /\ alert_status' = [alert_status EXCEPT ![name] = "absent"]
            /\ notifications' = [notifications EXCEPT ![name] = <<>>]
       ELSE UNCHANGED <<alert_rules, alert_status, notifications>>
    /\ UNCHANGED metrics
    /\ UNCHANGED monFrame

MonitorNext ==
    \/ \E v \in MetricValues : _collect_system_metrics(v)
    \/ _check_alert_rules
    \/ \E r \in Rules, cfg \in RuleConfigs :
           add_alert_rule(r, cfg.metric, cfg.threshold, cfg.operator)
    \/ \E r \in Rules : remove_alert_rule(r)

EncoderInit ==
    /\ EncInit /\ MqttInit /\ CoordIdle /\ RoundTripIdle /\ MatchIdle
    /\ SystemMonitor_init

EncoderSpec == EncoderInit /\ [][EncNext]_vars

ManagerInit ==
    /\ EncInit /\ impl = "RotaryEncoder" /\ MqttInit /\ CoordIdle /\ RoundTripIdle
    /\ MatchIdle
    /\ SystemMonitor_init

MqttSpec == ManagerInit /\ [][MqttNext]_vars

ConnectionInit ==
    /\ EncInit /\ impl = "RotaryEncoder" /\ CoordIdle /\ RoundTripIdle /\ MatchIdle
    /\ \E rd \in ReconnectDelays : MQTTManager_init(rd)
    /\ SystemMonitor_init

ConnectionSpec == ConnectionInit /\ [][ConnectionNext]_vars

\* The reconnect thread, once started, keeps running.
ReconnectFairness ==
    /\ WF_vars(_reconnect_loop)
    /\ WF_vars(\E r \in {"ok", "error"} : _reconnect_loop_connect(r))
    /\ WF_vars(_reconnect_loop_return)

ConnectionLiveSpec == ConnectionInit /\ [][ConnectionNext]_vars /\ ReconnectFairness

RoundTripInit ==
    /\ EncInit /\ impl = "RotaryEncoder" /\ MqttInit /\ CoordIdle /\ RoundTripStart
    /\ MatchIdle
    /\ SystemMonitor_init

RoundTripSpec == RoundTripInit /\ [][RoundTripNext]_vars

CoordInit ==
    /\ EncInit /\ impl = "Refactored" /\ MqttInit /\ CoordIdle /\ RoundTripIdle
    /\ MatchIdle
    /\ SystemMonitor_init

CoordSpec == CoordInit /\ [][CoordNext]_vars

\* The legacy and the LGPIO encoder with the thread that delivers the edges:
\* the callback takes time or raises, the lines change while the polling
\* loop runs.
DispatchNext ==
    \/ \E a \in Levels, b \in Levels, r \in BOOLEAN : RotaryEncoder_handle_encoder(a, b, r)
    \/ RotaryEncoder_handle_zero
    \/ \E p \in TriggerPositions : RotaryEncoder_set_trigger(p)
    \/ \E a \in Levels, b \in Levels, r \in BOOLEAN :
           RotaryEncoderLGPIO_handle_encoder_change(a, b, r)
    \/ RotaryEncoderLGPIO_handle_zero
    \/ \E p \in TriggerPositions : RotaryEncoderLGPIO_set_trigger(p)
    \/ \E raised \in BOOLEAN : trigger_callback_return(raised)
    \/ \E line \in {"A", "Z"} : line_change(line)

DispatchInit ==
    /\ \E a \in Levels, z \in Levels : RotaryEncoder_init(a, z)
    /\ impl \in {"RotaryEncoder", "RotaryEncoderLGPIO"}
    /\ MqttInit /\ CoordIdle /\ RoundTripIdle /\ MatchIdle
    /\ SystemMonitor_init

DispatchSpec == DispatchInit /\ [][DispatchNext]_vars

MatchInit ==
    /\ EncInit /\ impl = "RotaryEncoder" /\ MqttInit /\ CoordIdle /\ RoundTripIdle
    /\ MatchStart
    /\ SystemMonitor_init

MatchSpec == MatchInit /\ [][MatchNext]_vars

\* The connection life cycle with stop_auto_reconnect.
StopNext ==
    \/ \E r \in {"ok", "error"} : connect_to_broker(r)
    \/ connect_to_broker_return
    \/ \E rc \in ConnackCodes : _on_connect_handler(rc, <<>>)
    \/ _on_disconnect_handler
    \/ \E d \in BOOLEAN : disconnect_from_broker(d)
    \/ start_auto_reconnect
    \/ stop_auto_reconnect
    \/ _reconnect_loop
    \/ \E r \in {"ok", "error"} : _reconnect_loop_connect(r)
    \/ _reconnect_loop_return

StopInit ==
    /\ EncInit /\ impl = "RotaryEncoder" /\ MqttInit /\ CoordIdle /\ RoundTripIdle
    /\ MatchIdle
    /\ SystemMonitor_init

StopSpec == StopInit /\ [][StopNext]_vars

\* Publishing while the connection comes up and then stays up: every send
\* succeeds, nothing disconnects.
AllPublished(n) == [i \in 1..n |-> "published"]

StrandNext ==
    \/ \E r \in {"ok", "error"} : connect_to_broker(r)
    \/ connect_to_broker_return
    \/ \E rc \in ConnackCodes : _on_connect_handler(rc, AllPublished(Len(message_queue)))
    \/ \E q \in QosLevels, r \in {"published", "raise"} : publish_message_check(q, r)
    \/ publish_message_cache

StrandInit ==
    /\ EncInit /\ impl = "RotaryEncoder" /\ MqttInit /\ CoordIdle /\ RoundTripIdle
    /\ MatchIdle
    /\ SystemMonitor_init

StrandSpec == StrandInit /\ [][StrandNext]_vars

\* The caller's thread and the client's network thread keep running.
StrandFairness ==
    /\ WF_vars(publish_message_cache)
    /\ WF_vars(connect_to_broker_return)
    /\ WF_vars(\E rc \in ConnackCodes :
                  _on_connect_handler(rc, AllPublished(Len(message_queue))))

StrandLiveSpec == StrandInit /\ [][StrandNext]_vars /\ StrandFairness

\* The legacy encoders with a callback that calls back into the encoder.
LockNext ==
    \/ \E a \in Levels, b \in Levels, r \in BOOLEAN : RotaryEncoder_handle_encoder(a, b, r)
    \/ RotaryEncoder_handle_zero
    \/ \E p \in TriggerPositions : RotaryEncoder_set_trigger(p)
    \/ \E a \in Levels, b \in Levels, r \in BOOLEAN :
           RotaryEncoderLGPIO_handle_encoder_change(a, b, r)
    \/ RotaryEncoderLGPIO_handle_zero
    \/ \E p \in TriggerPositions : RotaryEncoderLGPIO_set_trigger(p)
    \/ \E raised \in BOOLEAN : trigger_callback_return(raised)
    \/ \E m \in {"get_position", "reset_position"} : trigger_callback_calls(m)
    \/ \E line \in {"A", "Z"} : line_change(line)

LockInit ==
    /\ \E a \in Levels, z \in Levels : RotaryEncoder_init(a, z)
    /\ impl \in {"RotaryEncoder", "RotaryEncoderLGPIO"}
    /\ MqttInit /\ CoordIdle /\ RoundTripIdle /\ MatchIdle
    /\ SystemMonitor_init

LockSpec == LockInit /\ [][LockNext]_vars

\* RotaryEncoderLGPIO with start, stop and cleanup.
CleanupNext ==
    \/ \E a \in Levels, b \in Levels :
           RotaryEncoderLGPIO_handle_encoder_change(a, b, TRUE)
    \/ RotaryEncoderLGPIO_handle_zero
    \/ \E line \in {"A", "Z"} : line_change(line)
    \/ RotaryEncoderLGPIO_start
    \/ \E j \in BOOLEAN : RotaryEncoderLGPIO_stop(j)
    \/ \E j \in BOOLEAN : RotaryEncoderLGPIO_cleanup(j)
    \/ _monitor_gpio_exit

CleanupInit ==
    /\ \E a \in Levels, z \in Levels : RotaryEncoder_init(a, z)
    /\ impl = "RotaryEncoderLGPIO"
    /\ MqttInit /\ CoordIdle /\ RoundTripIdle /\ MatchIdle
    /\ SystemMonitor_init

CleanupSpec == CleanupInit /\ [][CleanupNext]_vars

\* The refactored encoder with reset_position called from another thread
\* while a pulse is handled.
RaceNext ==
    \/ \E a \in Levels, b \in Levels : _handle_encoder_pulse_locked(a, b)
    \/ _handle_encoder_pulse_check
    \/ _handle_zero_pulse
    \/ \E p \in {0, ResetAlt} : reset_position(p)
    \/ \E cb \in BOOLEAN : start_monitoring(cb)

RaceInit ==
    /\ EncInit /\ impl = "Refactored" /\ MqttInit /\ CoordIdle /\ RoundTripIdle
    /\ MatchIdle
    /\ SystemMonitor_init

RaceSpec == RaceInit /\ [][RaceNext]_vars

MonitorInit ==
    /\ EncInit /\ impl = "RotaryEncoder" /\ MqttInit /\ CoordIdle /\ RoundTripIdle
    /\ MatchIdle
    /\ SystemMonitor_init

MonitorSpec == MonitorInit /\ [][MonitorNext]_vars

RouterInit ==
    /\ EncInit /\ impl = "RotaryEncoder" /\ MqttInit /\ CoordIdle /\ RoundTripIdle
    /\ MatchIdle
    /\ SystemMonitor_init

RouterSpec == RouterInit /\ [][RouterNext]_vars

----------------------------------------------------------------------------
\* Properties of the encoders.

IsEdge(op) == op \in {"cw", "ccw"}

\* C1: in every revolution in which the position advances from 0 to 160 by
\* clockwise edges under the default trigger (threshold 150, callback set), the
\* callback has been invoked exactly once when position 160 is reached, in the
\* first revolution and in every later one.
C1_OncePerRevolution ==
    (revClean /\ position = 160) => revFires = 1

\* C2: after the index handler has run, position is 0 and last_trigger_position
\* is 0, in all three classes.
C2_IndexClearsTrigger ==
    lastOp = "zero" => (position = 0 /\ last_trigger_position = 0)

\* C3 as claimed: in every class an edge invokes the callback if and only if a
\* callback is set, the new position is at or above the threshold and exceeds
\* last_trigger_position by more than the guard band of 100; when it does,
\* last_trigger_position becomes the new position.
C3_Original ==
    [][IsEdge(lastOp') =>
          /\ fired' <=> (/\ trigger_callback
                         /\ position' >= trigger_position
                         /\ position' - last_trigger_position > GuardBand)
          /\ fired' => last_trigger_position' = position']_vars

\* C3 amended: that condition is the one of RotaryEncoder and
\* RotaryEncoderLGPIO; the refactored RotaryEncoder dispatches the callback if
\* and only if the trigger is enabled, a callback is set and the new position
\* is at least trigger_position counts away from last_trigger_position, in
\* either direction. In all three, last_trigger_position becomes the new
\* position when the callback is invoked.
C3_TriggerContract ==
    [][IsEdge(lastOp') =>
          /\ fired' <=>
                IF impl = "Refactored"
                THEN /\ trigger_enabled
                     /\ trigger_callback
                     /\ \/ position' - last_trigger_position >= trigger_position
                        \/ last_trigger_position - position' >= trigger_position
                ELSE /\ trigger_callback
                     /\ position' >= trigger_position
                     /\ position' - last_trigger_position > GuardBand
          /\ fired' => last_trigger_position' = position']_vars

\* C3 witness: the refactored encoder dispatched the callback below the threshold.
C3_Witness ==
    impl = "Refactored" /\ fired /\ position < trigger_position

\* C4: from a fresh encoder with threshold 150 and no index event, positions fed
\* within 0..160 fire the callback exactly once, at position 150, and coming
\* back down as far as 140 and up again fires nothing more.
C4_OncePerPass ==
    inBand => /\ revFires <= 1
              /\ position >= 150 => revFires = 1
              /\ revFires = 1 => last_trigger_position = 150

\* C4 witness: after firing the position came down to 140 and is back at 160.
C4_Witness ==
    dipped /\ position = 160 /\ revFires = 1

C6_Original ==
    [][(impl = "Refactored" /\ IsEdge(lastOp')) =>
          position' = position + (IF lastOp' = "cw" THEN 1 ELSE -1)]_vars

Within(p, lo, hi) ==
    /\ lo # None => p >= lo[1]
    /\ hi # None => p <= hi[1]

\* C6 amended: an edge changes position by exactly +1 or -1 when no limit is
\* set or the stepped position lies within the limits; otherwise position
\* becomes one of the limits.
C6_StepOrClamp ==
    [][(impl = "Refactored" /\ IsEdge(lastOp')) =>
          LET stepped == position + (IF lastOp' = "cw" THEN 1 ELSE -1)
          IN  IF Within(stepped, min_position, max_position)
              THEN position' = stepped
              ELSE Some(position') \in {min_position, max_position}]_vars

\* C6 witness: an edge was clamped at the upper limit.
C6_Witness ==
    /\ impl = "Refactored"
    /\ lastOp = "cw"
    /\ clampedRun
    /\ max_position = Some(position)

----------------------------------------------------------------------------
\* Properties of the MQTT manager.

Published == 1..published

\* Every message published so far was cached and none has left the queue
\* except by eviction.
AllCached == Len(message_queue) + Cardinality(evicted) = published

\* C7: the queue never holds more than max_queue_size entries; when every
\* message was published while disconnected, the queue holds the newest
\* max_queue_size of them in publish order, the oldest ones evicted.
C7_QueueBounded ==
    /\ Len(message_queue) <= max_queue_size
    /\ AllCached =>
          /\ Len(message_queue) = Min(published, max_queue_size)
          /\ \A i \in 1..Len(message_queue) :
                message_queue[i].id = published - Len(message_queue) + i

\* C7 witness: max_queue_size + 1 messages published while disconnected, the
\* first one evicted.
C7_Witness ==
    /\ AllCached
    /\ published = max_queue_size + 1
    /\ evicted = {1}
    /\ Len(message_queue) = max_queue_size

\* C8: every message published and not evicted is handed to the transport
\* exactly once: never twice, and while it has not been handed over it is still
\* in the queue.
C8_ExactlyOnce ==
    \A id \in Published \ evicted :
        /\ handed[id] <= 1
        /\ handed[id] = 0 => InQueue(id)

\* C9: a publish_message call never discards its message: when the call
\* returns, the message was either handed to the client or placed in the queue.
C9_NeverDiscards ==
    [][published' = published + 1 =>
          \/ handed'[published'] >= 1
          \/ published' \in Ids(message_queue')]_vars

\* C10: a qos >= 1 message that the client accepted stays in the queue until
\* its acknowledgment is seen.
C10_QueuedUntilAcked ==
    \A id \in unacked : InQueue(id)

\* C11: when the manager becomes connected, every queued message is at once
\* either handed to the client or kept in the queue; client.publish is called
\* in the order the messages were enqueued, and the messages that stay queued
\* keep their relative order.
C11_FifoDrain ==
    [][(is_connected' /\ ~is_connected) =>
          /\ fifo_ok'
          /\ Increasing(QueueIds(message_queue'))
          /\ \A id \in Ids(message_queue) :
                \/ id \in Ids(message_queue')
                \/ handed'[id] > handed[id]
                \/ handed[id] = 2]_vars

\* C11 witness: two cached messages were sent by one flush, neither was
\* acknowledged at once, and both are still queued.
C11_Witness ==
    /\ is_connected
    /\ fifo_ok
    /\ Len(message_queue) = 2
    /\ handed[message_queue[1].id] = 1
    /\ handed[message_queue[2].id] = 1

----------------------------------------------------------------------------
\* Properties of the connection life cycle.

\* C12: whenever the manager becomes connected, the broker holds a
\* subscription for every topic with a registered handler.
C12_Resubscribes ==
    [][(is_connected' /\ ~is_connected) => message_callbacks \subseteq broker_subs']_vars

\* C13: a message that went through the offline queue is passed to
\* client.publish with the topic, message, qos and retain flag that a
\* connected publish_message would have passed.
C13_RoundTrip ==
    rt_stage = "flushed" => rt_sent = direct_args(rt_call)

\* C13 witness: a dict payload with qos 2 and retain set went through the queue.
C13_Witness ==
    /\ rt_stage = "flushed"
    /\ rt_call.payload.kind = "dict"
    /\ rt_call.qos = 2
    /\ rt_call.retain

\* The waits the claim lists for a base delay of 2 s.
ClaimedWaits == <<2, 4, 8, 16, 32, 60, 60, 60, 60, 60>>

\* C14: the wait the reconnect loop starts before its n-th consecutive attempt
\* (n - 1 = streak failed attempts since the last connection) is
\* min(reconnect_delay * 2^(n-1), 60), which for reconnect_delay = 2 is
\* 2, 4, 8, 16, 32, 60, 60, ...; it is never above 60, and the wait after one
\* more failed attempt is not shorter.
C14_Backoff ==
    [][(reconnect_thread # "sleeping" /\ reconnect_thread' = "sleeping") =>
          /\ delay' = Min(reconnect_delay * 2^streak, MaxDelay)
          /\ reconnect_delay = 2 => delay' = ClaimedWaits[streak + 1]
          /\ delay' <= MaxDelay
          /\ backoff_delay(reconnect_delay, streak + 1) >= delay']_vars

\* C14 witness: the loop sleeps 60 s before its seventh attempt in a row, base 2 s.
C14_Witness ==
    /\ reconnect_thread = "sleeping"
    /\ reconnect_delay = 2
    /\ streak = 6
    /\ delay = 60

\* get_connection_status: the fields of the status that tell the state of the
\* connection.
get_connection_status == <<is_connected, is_connecting, reconnect_attempts>>

\* C15: when the reconnect loop gives up after max_reconnect_attempts failed
\* attempts in a row, the caller is told: the registered connection callback
\* is invoked or the connection status changes.
C15_ExhaustionReported ==
    [][(connection_callback /\ reconnect_thread # "exited" /\ reconnect_thread' = "exited")
          => \/ connection_events' >= 1
             \/ get_connection_status' # get_connection_status]_vars

\* The reconnect loop ends its wait and starts a connection attempt.
ReconnectAttempt ==
    /\ reconnect_thread = "sleeping"
    /\ reconnect_thread' # "sleeping"
    /\ ~is_connected
    /\ ~is_connecting

\* C16: after disconnect_from_broker, and until the user calls
\* connect_to_broker, the reconnect loop starts no connection attempt and the
\* manager does not become connected.
C16_DisconnectStopsReconnect ==
    [][(disconnect_requested /\ disconnect_requested') =>
          /\ ~ReconnectAttempt
          /\ ~(is_connected' /\ ~is_connected)]_vars

\* The transport was lost: the client's network loop runs, the manager is not
\* connected and no connect_to_broker call is under way.
TransportLost ==
    /\ ~is_connected
    /\ client
    /\ loop_running
    /\ ~waiting
    /\ ~is_connecting
    /\ reconnect_thread # "connecting"

ConnState ==
    IF is_connected THEN "Connected"
    ELSE IF is_connecting THEN "Connecting"
    ELSE IF reconnect_thread = "sleeping" THEN "Reconnecting"
    ELSE "Disconnected"

\* C19: every change of the connection state invokes the registered
\* connection callback exactly once.
C19_EveryTransitionNotifies ==
    [][(connection_callback /\ ConnState' # ConnState) => connection_events' = 1]_vars

----------------------------------------------------------------------------
\* Properties of the trigger-to-capture path.

\* C20: at most one capture is in flight at any time.
C20_OneCaptureInFlight == captures_in_flight <= 1

----------------------------------------------------------------------------
\* Properties of the callback dispatch, the polling loop and the capture path.

\* C21: the trigger callback is handed to a worker; the thread that handles
\* the edges is never inside the callback (it would run it inline, with
\* position_lock held).
C21_DispatchedToWorker == edge_thread # "in_callback"

\* C22: a trigger callback that raises does not end the decoding: the thread
\* that handles edges and index events stays alive.
C22_CallbackFailureContained == edge_thread # "dead"

\* C23: once a capture has failed (it raised, or reported an error), the
\* coordinator has published an alert on the alerts topic.
C23_CaptureFailureAlerts ==
    capture_result \in {"error", "raise"} => "alerts" \in trigger_published

\* C29: the position changes once per transition of the A line: once an edge
\* has been handled, it is not counted again while the line keeps its level.
C29_OncePerTransition ==
    [][(impl = "RotaryEncoderLGPIO" /\ IsEdge(lastOp) /\ IsEdge(lastOp'))
          => position' = position]_vars

----------------------------------------------------------------------------
\* Properties of the topic matching and of the inbound dispatch.

\* match(pattern, topic) as the specification words it: "+" is exactly one
\* non-empty level, "#" the last level only, standing for the rest of the
\* topic, which may be nothing.
RECURSIVE match(_, _)
match(pattern, topic) ==
    IF pattern = <<>> THEN topic = <<>>
    ELSE IF Head(pattern) = "#" THEN Len(pattern) = 1
    ELSE IF topic = <<>> THEN FALSE
    ELSE /\ (Head(pattern) = "+" /\ Head(topic) # "") \/ Head(pattern) = Head(topic)
         /\ match(Tail(pattern), Tail(topic))

PlusPattern(pattern) == HasLevel(pattern, "+") /\ ~HasLevel(pattern, "#")

\* C24 as claimed: "+" matches exactly one non-empty level, so that
\* pi_sorter/+/status matches pi_sorter/cam1/status and neither
\* pi_sorter/cam1/sub/status nor pi_sorter//status.
C24_Original ==
    (mt_stage = "returned" /\ PlusPattern(mt_pattern))
        => (mt_result <=> match(mt_pattern, mt_topic))

\* C24: "+" matches exactly one level, empty or not: a pattern with "+" and
\* without "#" matches the topics of its own number of levels that agree
\* with it level by level outside the "+", which are the topics a broker
\* forwards for it.
C24_PlusOneLevel ==
    (mt_stage = "returned" /\ PlusPattern(mt_pattern))
        => (mt_result <=> broker_forwards(mt_pattern, mt_topic))

C24_Witness ==
    /\ mt_stage = "returned"
    /\ mt_pattern = <<"pi_sorter", "+", "status">>
    /\ mt_topic = <<"pi_sorter", "", "status">>
    /\ mt_result

LiteralPrefix(pattern) ==
    /\ Len(pattern) >= 2
    /\ pattern[Len(pattern)] = "#"
    /\ \A i \in 1..(Len(pattern) - 1) : pattern[i] \notin {"+", "#"}

StartsWith(topic, pattern, n) ==
    /\ Len(topic) >= n
    /\ \A i \in 1..n : topic[i] = pattern[i]

\* C25: a pattern P/# with a literal prefix P matches P itself and every
\* topic below P, and no topic whose leading levels differ from P.
C25_TrailingHash ==
    (mt_stage = "returned" /\ LiteralPrefix(mt_pattern))
        => (mt_result <=> StartsWith(mt_topic, mt_pattern, Len(mt_pattern) - 1))

C25_Witness ==
    /\ mt_stage = "returned"
    /\ mt_pattern = <<"pi_sorter", "status", "#">>
    /\ mt_topic = <<"pi_sorter", "status">>
    /\ mt_result

\* A pattern as the specification admits it: "#" in the last level only.
ValidPattern(pattern) ==
    \A i \in DOMAIN pattern : pattern[i] = "#" => i = Len(pattern)

\* C26: a pattern with "#" in another place than the last level is rejected
\* when it is subscribed: no handler is ever registered for it.
C26_RejectsInnerHash == \A p \in message_callbacks : ValidPattern(p)

\* C27: when a message arrives, every handler registered for a pattern that
\* matches its topic is called exactly once, also when another matching
\* handler raises.
C27_FanOut ==
    [][(routeVars' # routeVars /\ message_callbacks' = message_callbacks) =>
          \A p \in message_callbacks :
              match(p, arrived'.topic) => invoked'[p] = 1]_vars

\* C28: every message dropped from the full queue is counted: the step that
\* drops n messages adds n to a counter of the manager.
C28_OverflowCounted ==
    [][evicted' # evicted =>
          \E k \in StatsCounters :
              _cache_message_counts(TRUE)[k] = Cardinality(evicted' \ evicted)]_vars

Malformed(payload) == payload \in {"text", "binary"}

\* C30 as claimed: a malformed payload is discarded, no handler is called
\* for it.
C30_Original ==
    Malformed(arrived.payload) => \A p \in RouterPatterns : invoked[p] = 0

\* C30: a malformed payload is not discarded: the handlers whose key matches
\* are called with the decoded text when it is not JSON, and with the str()
\* of the bytes when they are not UTF-8; the connection state, the
\* subscriptions, the outbound queue and the encoder are left as they were.
C30_MalformedDelivered ==
    [][(routeVars' # routeVars /\ Malformed(arrived'.payload)) =>
          /\ handler_payload' =
                 IF \E p \in message_callbacks : _topic_matches(p, arrived'.topic)
                 THEN (IF arrived'.payload = "text" THEN "payload_str"
                       ELSE "str(msg.payload)")
                 ELSE "none"
          /\ UNCHANGED <<mqttVars, connVars, encVars>>]_vars

C30_Witness ==
    /\ arrived.payload = "binary"
    /\ handler_payload = "str(msg.payload)"
    /\ \E p \in RouterPatterns : invoked[p] = 1
    /\ is_connected

----------------------------------------------------------------------------
\* Properties of connection attempts, of the reconnect thread's end and of
\* the handler registry.

\* A connection attempt that creates the manager's first client and fails at
\* client.connect: no call is left in its wait loop.
FirstAttemptFails ==
    /\ ~client
    /\ client'
    /\ ~waiting'
    /\ reconnect_thread' # "connecting"

C33_OneAttempt == ~(waiting /\ reconnect_thread = "connecting")

\* C36: the handler registry reflects only successful operations: a handler
\* is added only by a subscribe call that succeeds (the broker request is
\* made and accepted).
C36_RegistryReflectsSuccess ==
    [][\A t \in message_callbacks' \ message_callbacks : t \in broker_subs']_vars

MixedPattern(pattern) ==
    /\ HasLevel(pattern, "+")
    /\ pattern[Len(pattern)] = "#"
    /\ ValidPattern(pattern)

\* C35: a pattern that combines "+" with a trailing "#" follows both rules:
\* a/+/# matches a/b, a/b/c and a/b/c/d and neither a nor x/b/c.
C35_MixedWildcards ==
    (mt_stage = "returned" /\ MixedPattern(mt_pattern))
        => (mt_result <=> match(mt_pattern, mt_topic))

\* C32: once stop_auto_reconnect has returned, the reconnect loop makes no
\* further connection attempt.
C32_StopEndsReconnect ==
    [][(stop_requested /\ stop_requested') => ~ReconnectAttempt]_vars

\* C34: no message is stranded in the offline queue: with the connection
\* established, a queued message is eventually handed to the transport
\* (or the connection is lost).
C34_NoStrandedMessage ==
    (is_connected /\ message_queue # <<>>) ~> (message_queue = <<>> \/ ~is_connected)

Alternates(log) ==
    \A i \in 1..Len(log) :
        log[i] = IF i % 2 = 1 THEN "triggered" ELSE "recovered"

\* C40: the notifications of a rule alternate, beginning with "triggered",
\* and alert_status holds true for the rule exactly while the last
\* notification sent for it was "triggered".
C40_EdgeTriggered ==
    \A r \in Rules :
        /\ Alternates(notifications[r])
        /\ alert_status_get(r) <=>
               (/\ notifications[r] # <<>>
                /\ notifications[r][Len(notifications[r])] = "triggered")

C40_Witness ==
    \E r \in Rules :
        /\ notifications[r] = <<"triggered", "recovered", "triggered">>
        /\ alert_status_get(r)

\* A reset has replaced the position the pulse under way took under the lock.
SupersededPulse ==
    /\ pulse_thread # None
    /\ pulse_thread[1].new_position # position

\* C37: a pulse whose position a reset has superseded makes no trigger
\* decision: when its handling ends, last_trigger_position is still the
\* value the reset gave it.
C37_NoSupersededTrigger ==
    [][(SupersededPulse /\ pulse_thread' = None)
           => last_trigger_position' = last_trigger_position]_vars

\* C38: a trigger callback that calls get_position() or reset_position() is
\* never left waiting for position_lock.
C38_NoSelfDeadlock == edge_thread # "blocked"

\* C39: when cleanup() has closed the chip, the loop condition of
\* _monitor_gpio is false.
C39_CleanupStopsPolling ==
    [][(chip /\ ~chip') => ~(is_running' \/ ~_stop_monitor')]_vars

====
